---- MODULE Spec2Model ----
(***************************************************************************)
(* Gecko shell: the operator classifier (utils.rs is_special), the         *)
(* recursive line assembler (utils.rs parse_line, redirect.rs) and the     *)
(* read-eval loop (main.rs), with the file system and the process table    *)
(* they act on.                                                            *)
(***************************************************************************)
EXTENDS Integers, Sequences, FiniteSets, TLC

VARIABLES
    history,   \* History.commands: the token list of every line read so far
    printed,   \* what the history built-in did on the last line: its result and the entries shown
    stdin,     \* the shell's standard input: "open", or "eof" once end of input was read
    input,     \* what the last read_line delivered: "line", "eof", "error" ("none" at the prompt)
    raw,       \* the line read_line returned, as lexemes (words and quoted spans)
    pc,        \* position of main: "prompt", "parse", "parsed", "finished", "exited", "crashed"
               \* (and "classify"/"classified" when is_special alone is exercised)
    tokens,    \* main.rs `tokens`: the token list of the current line
    rest,      \* parse_line `tokens`: what the current recursion level was given
    process,   \* parse_line `process`: the accumulator, None or Some(Command)
    result,    \* what parse_line / builtin returned to main
    fs,        \* the file system: file name -> "absent" | "empty" | "data" | "dir"
    fs_before, \* the file system as it was when the current line was read
    opened,    \* files opened for the current line, in order: [file, mode]
    children,  \* processes started for the current line, in order; the index is the pid
    waited,    \* pids the shell has waited on, in order
    reported,  \* "Child .. exited with status .." lines printed: [pid, status]
    diag,      \* diagnostics written to stderr for the current line
    folds,     \* number of parse_line levels that called redirect for the current line
    dispatched,\* what builtin() answered for the current line: "Ok(true)", "Err", "Ok(false)"
    probe,     \* the token handed to is_special when it is exercised alone
    verdict    \* what is_special answered for probe

vars == <<history, printed, stdin, input, raw, pc, tokens, rest, process, result, fs, fs_before, opened, children, waited,
          reported, diag, folds, dispatched, probe, verdict>>

-----------------------------------------------------------------------------
(* Bounds of the model *)

\* longest line, in tokens, over the full vocabulary
MaxLineLen == 3
\* longest line, in tokens, over the pipeline vocabulary
MaxPipeLen == 5
\* longest token, in characters, handed to is_special alone
MaxTokLen == 3
\* the most lines the history is followed over
MaxHistory == 3
\* the largest count given to `history <n>`
MaxNum == 4

-----------------------------------------------------------------------------
(* Characters and tokens.  A token is a sequence of characters; a          *)
(* character is a one-element string, except EAcute, which stands for a    *)
(* character whose UTF-8 encoding takes two bytes.                         *)

EAcute == "U+00E9"

Chars == {"<", ">", "|", "!", "&", "1", "2", "a", EAcute}

\* bytes of the UTF-8 encoding of a character
Utf8Width(c) == IF c = EAcute THEN 2 ELSE 1

\* Option<usize>: None, or Some(i) written i
NoIndex == -1

\* str::len: the length of a token in BYTES
RECURSIVE str_len(_)
str_len(token) ==
    IF token = <<>> THEN 0 ELSE Utf8Width(Head(token)) + str_len(Tail(token))

\* str::find of a one-character pattern: byte offset of the first match
find(token, c) ==
    IF \E i \in 1..Len(token) : token[i] = c
    THEN LET i == CHOOSE k \in 1..Len(token) :
                      token[k] = c /\ \A j \in 1..(k - 1) : token[j] # c
         IN  str_len(SubSeq(token, 1, i - 1))
    ELSE NoIndex

\* str::rfind of a one-character pattern: byte offset of the last match
rfind(token, c) ==
    IF \E i \in 1..Len(token) : token[i] = c
    THEN LET i == CHOOSE k \in 1..Len(token) :
                      token[k] = c /\ \A j \in (k + 1)..Len(token) : token[j] # c
         IN  str_len(SubSeq(token, 1, i - 1))
    ELSE NoIndex

\* a classifier that forgets the reserved marker "!"
is_special_no_bang(token) ==
    \/ /\ str_len(token) = 1
       /\ \/ find(token, "<") = 0
          \/ find(token, ">") = 0
          \/ find(token, "|") = 0
    \/ /\ str_len(token) = 2
       /\ rfind(token, ">") = 1

\* utils.rs is_special
is_special(token) ==
    \/ /\ str_len(token) = 1
       /\ \/ find(token, "<") = 0
          \/ find(token, ">") = 0
          \/ find(token, "!") = 0
          \/ find(token, "|") = 0
    \/ /\ str_len(token) = 2
       /\ rfind(token, ">") = 1

\* all tokens of at most n characters
TokensUpTo(n) == UNION {[1..k -> Chars] : k \in 0..n}


-----------------------------------------------------------------------------
(* The vocabulary of the lines typed at the prompt *)

\* words
Wa == <<"a">>
Wf == <<"f">>
Wexit == <<"e", "x", "i", "t">>
Wcd == <<"c", "d">>
Wpwd == <<"p", "w", "d">>
Wclear == <<"c", "l", "e", "a", "r">>
Wls == <<"l", "s">>
Wrm == <<"r", "m">>
Wtouch == <<"t", "o", "u", "c", "h">>
Whistory == <<"h", "i", "s", "t", "o", "r", "y">>
Wcat == <<"c", "a", "t">>

\* operator spellings redirect knows
OpIn == <<"<">>
OpOut == <<">">>
OpOut1 == <<"1", ">">>
OpErr == <<"2", ">">>
OpAppend == <<">", ">">>
OpBoth == <<"&", ">">>
OpPipe == <<"|">>
\* tokens is_special accepts and redirect does not know
OpBang == <<"!">>
OpOdd == <<"a", ">">>

Recognized == {OpIn, OpOut, OpOut1, OpErr, OpAppend, OpBoth, OpPipe}
Operators == Recognized \cup {OpBang, OpOdd}

\* words that may stand anywhere in a line, and words typed only in front
Words == {Wa, Wf}
FirstWords == {Wexit, Wcd, Wpwd, Wclear}
FileNames == Words \cup FirstWords

\* programs the operating system can launch; spawning any other name fails
Executables == {Wa, Wcd}

\* the names builtin.rs dispatches on
Builtins == {Wls, Wrm, Wtouch, Wcd, Wpwd, Whistory, Wclear, Wcat}

ExitStatuses == {0, 1}

SeqsUpTo(S, n) == UNION {[1..k -> S] : k \in 0..n}

\* lines over a vocabulary V whose first token may also be a word of F
LinesOver(V, F, n) ==
    {l \in SeqsUpTo(V \cup F, n) : \A i \in 2..Len(l) : l[i] \in V}

\* lines typed without quotes: every lexeme is a token
FullLines == LinesOver(Words \cup Operators, FirstWords, MaxLineLen)
PipeLines == LinesOver(Words \cup {OpPipe, OpOut, OpErr}, {}, MaxPipeLen)
\* the operators that take a file name
FileOps == {OpIn, OpOut, OpOut1, OpErr, OpAppend, OpBoth}

\* `a op f` followed by a pipe stage, or by two more words
TailLines ==
    {<<Wa, op, Wf>> \o t : op \in FileOps, t \in {<<OpPipe, Wa>>, <<Wa, Wf>>}}

Lines == FullLines \cup PipeLines \cup TailLines

-----------------------------------------------------------------------------
(* parser.rs: the lexer.  A line is a sequence of lexemes: the runs of      *)
(* characters the grammar takes as one `command` or one `quoted` span.      *)

DQuote == "\""

\* the lexeme of a double-quoted span with the given content
Quoted(content) == <<DQuote>> \o content \o <<DQuote>>

\* grammar.pest: the rule a lexeme matches; a lexeme with a stray or
\* unterminated quote matches none
Rule(lexeme) ==
    IF \A i \in 1..Len(lexeme) : lexeme[i] # DQuote THEN "command"
    ELSE IF /\ Len(lexeme) >= 2
            /\ lexeme[1] = DQuote
            /\ lexeme[Len(lexeme)] = DQuote
            /\ \A i \in 2..(Len(lexeme) - 1) : lexeme[i] # DQuote
    THEN "quoted"
    ELSE "none"

\* ArgParser::parse(Rule::line, &to_parse) is Ok
grammar_accepts(line) == \A i \in 1..Len(line) : Rule(line[i]) # "none"

\* parser.rs parse, for a line the grammar accepts: quoted spans lose their
\* first and last byte, commands are pushed as they are
parse(line) ==
    [i \in 1..Len(line) |->
        IF Rule(line[i]) = "quoted"
        THEN SubSeq(line[i], 2, Len(line[i]) - 1)
        ELSE line[i]]

\* lines with at least one quoted span
QuotedLines ==
    {l \in SeqsUpTo({Wa, Wf, OpOut, OpPipe, Quoted(Wa), Quoted(OpOut), Quoted(OpPipe)},
                    MaxLineLen) :
        \E i \in 1..Len(l) : Rule(l[i]) = "quoted"}

\* lines the grammar rejects: an unterminated quote
MalformedLines == {<<Wa, <<DQuote, "a">>>>}

\* what one read_line call can deliver
Inputs ==
    [kind : {"line"}, raw : Lines \cup QuotedLines \cup MalformedLines]
        \cup {[kind |-> "eof", raw |-> <<>>], [kind |-> "error", raw |-> <<>>]}

\* utils.rs prompt_and_read: Some(tokens), or None when read_line fails
prompt_and_read(inp) ==
    IF inp.kind = "error" THEN <<>> ELSE <<parse(inp.raw)>>

\* Option::unwrap_or(Vec::new())
unwrap_or_empty(opt) == IF opt = <<>> THEN <<>> ELSE opt[1]

-----------------------------------------------------------------------------
(* Commands, stream bindings, results *)

None == <<>>
Some(x) == <<x>>

\* a stream the Command leaves unset: inherited by spawn()
Inherit == [kind |-> "inherit", file |-> <<>>, pid |-> 0]
ToFile(name) == [kind |-> "file", file |-> name, pid |-> 0]
\* the read end of the pipe that child `pid` writes its stdout to
FromPipe(pid) == [kind |-> "pipe", file |-> <<>>, pid |-> pid]
\* Stdio::piped(): a new pipe whose other end the parent keeps
Piped == [kind |-> "piped", file |-> <<>>, pid |-> 0]
NullStream == [kind |-> "null", file |-> <<>>, pid |-> 0]

\* a Command that repeats the program name as its first argument
Command_new_argv0(program, args) ==
    [prog |-> program, args |-> <<program>> \o args,
     stdin |-> Inherit, stdout |-> Inherit, stderr |-> Inherit]

\* Command::new(program).args(args)
Command_new(program, args) ==
    [prog |-> program, args |-> args,
     stdin |-> Inherit, stdout |-> Inherit, stderr |-> Inherit]

Ok(v) == [kind |-> "Ok", value |-> v, err |-> ""]
Err(e) == [kind |-> "Err", value |-> None, err |-> e]
Panic == [kind |-> "panic", value |-> None, err |-> "index out of bounds"]
NoResult == [kind |-> "none", value |-> None, err |-> ""]

\* what a handler hands back: its Result and the world it left behind
Outcome(r, env) == [ret |-> r, env |-> env]

-----------------------------------------------------------------------------
(* The operating system: files and processes *)

\* OpenOptions::open / File::open / File::create on `name`
\*   "read":     File::open                        fails if the file is absent
\*   "truncate": create(true).write(true).truncate(true), File::create
\*   "append":   create(true).append(true)
\* writing to a directory fails
open_succeeds(files, name, mode) ==
    IF mode = "read" THEN files[name] # "absent" ELSE files[name] # "dir"

\* an append that empties the file it opens
after_open_append_truncates(files, name, mode) ==
    IF ~open_succeeds(files, name, mode) \/ mode = "read" THEN files
    ELSE [files EXCEPT ![name] = "empty"]

after_open(files, name, mode) ==
    IF ~open_succeeds(files, name, mode) \/ mode = "read" THEN files
    ELSE IF mode = "truncate" THEN [files EXCEPT ![name] = "empty"]
    ELSE [files EXCEPT ![name] = IF @ = "absent" THEN "empty" ELSE @]

\* the world after trying to open `name`: the attempt is logged when it succeeds
open_file(env, name, mode) ==
    IF open_succeeds(env.fs, name, mode)
    THEN [env EXCEPT !.fs = after_open(env.fs, name, mode),
                     !.opened = Append(@, [file |-> name, mode |-> mode])]
    ELSE env

open_error(files, name, mode) ==
    IF mode = "read" THEN "NotFound" ELSE "IsADirectory"

\* Command::spawn succeeds when the program can be launched
spawn_succeeds(cmd) == cmd.prog \in Executables

\* the process table after Command::spawn; `by` names the call site
spawn(env, cmd, by) ==
    [env EXCEPT !.children =
        Append(@, [prog |-> cmd.prog, args |-> cmd.args, stdin |-> cmd.stdin,
                   stdout |-> cmd.stdout, stderr |-> cmd.stderr,
                   by |-> by, at |-> env.folds, status |-> "running"])]

\* Child::wait_with_output on the newest child, which exits with status st
wait_last(env, st) ==
    LET pid == Len(env.children)
    IN  [env EXCEPT !.children[pid].status = st,
                    !.waited = Append(@, pid)]


\* Command::output on `cmd`: a stream left unset is captured (stdout, stderr)
\* or closed (stdin) instead of being inherited
output_view(cmd) ==
    [cmd EXCEPT !.stdin = IF @ = Inherit THEN NullStream ELSE @,
                !.stdout = IF @ = Inherit THEN Piped ELSE @,
                !.stderr = IF @ = Inherit THEN Piped ELSE @]

-----------------------------------------------------------------------------
(* redirect.rs: one handler per operator.  `toks` is the operand segment,   *)
(* `proc` the accumulator (always Some when a handler is reached), `env`    *)
(* the world, `st` the exit status a proc run to completion ends with.   *)

\* an append handler that opens its file the way ">" does
handle_append_redirect_truncating(toks, proc, env) ==
    IF toks = <<>> THEN Outcome(Panic, env)
    ELSE IF ~open_succeeds(env.fs, toks[1], "truncate")
    THEN Outcome(Err(open_error(env.fs, toks[1], "truncate")), env)
    ELSE IF proc = None THEN Outcome(Panic, open_file(env, toks[1], "truncate"))
    ELSE Outcome(Ok(Some([proc[1] EXCEPT !.stdout = ToFile(toks[1])])),
                 open_file(env, toks[1], "truncate"))

\* redirect.rs handle_append_redirect
handle_append_redirect(toks, proc, env) ==
    IF toks = <<>> THEN Outcome(Panic, env)
    ELSE IF ~open_succeeds(env.fs, toks[1], "append")
    THEN Outcome(Err(open_error(env.fs, toks[1], "append")), env)
    ELSE IF proc = None THEN Outcome(Panic, open_file(env, toks[1], "append"))
    ELSE Outcome(Ok(Some([proc[1] EXCEPT !.stdout = ToFile(toks[1])])),
                 open_file(env, toks[1], "append"))

\* a stderr handler that only binds the file and leaves the run to execute
handle_stderr_redirect_bind_only(toks, proc, env, st) ==
    IF toks = <<>> THEN Outcome(Err("InvalidInput"), env)
    ELSE IF ~open_succeeds(env.fs, toks[1], "truncate")
    THEN Outcome(Err(open_error(env.fs, toks[1], "truncate")), env)
    ELSE IF proc = None THEN Outcome(Panic, open_file(env, toks[1], "truncate"))
    ELSE Outcome(Ok(Some([proc[1] EXCEPT !.stderr = ToFile(toks[1])])),
                 open_file(env, toks[1], "truncate"))

\* redirect.rs handle_stderr_redirect
handle_stderr_redirect(toks, proc, env, st) ==
    IF toks = <<>> THEN Outcome(Err("InvalidInput"), env)
    ELSE IF ~open_succeeds(env.fs, toks[1], "truncate")
    THEN Outcome(Err(open_error(env.fs, toks[1], "truncate")), env)
    ELSE IF proc = None THEN Outcome(Panic, open_file(env, toks[1], "truncate"))
    ELSE LET env1 == open_file(env, toks[1], "truncate")
             command == [proc[1] EXCEPT !.stderr = ToFile(toks[1])]
         IN  IF ~spawn_succeeds(command)
             THEN Outcome(Err("NotFound"), env1)
             ELSE Outcome(Ok(Some(command)),
                          wait_last(spawn(env1, output_view(command), "output"), st))

\* redirect.rs handle_stdout_stderr_redirect
handle_stdout_stderr_redirect(toks, proc, env) ==
    IF toks = <<>> THEN Outcome(Panic, env)
    ELSE IF ~open_succeeds(env.fs, toks[1], "truncate")
    THEN Outcome(Err(open_error(env.fs, toks[1], "truncate")), env)
    ELSE LET env1 == open_file(env, toks[1], "truncate")
             env2 == open_file(env1, toks[1], "truncate")
         IN  IF proc = None THEN Outcome(Panic, env2)
             ELSE Outcome(Ok(Some([proc[1] EXCEPT !.stdout = ToFile(toks[1]),
                                               !.stderr = ToFile(toks[1])])),
                     env2)

\* a stdout handler that also rebinds the stdout of the newest spawned process
handle_stdout_redirect_rebinds_upstream(toks, proc, env) ==
    IF toks = <<>> THEN Outcome(Panic, env)
    ELSE IF ~open_succeeds(env.fs, toks[1], "truncate")
    THEN Outcome(Err(open_error(env.fs, toks[1], "truncate")), env)
    ELSE IF proc = None THEN Outcome(Panic, open_file(env, toks[1], "truncate"))
    ELSE LET env1 == open_file(env, toks[1], "truncate")
             pid == Len(env1.children)
         IN  Outcome(Ok(Some([proc[1] EXCEPT !.stdout = ToFile(toks[1])])),
                     IF pid = 0 THEN env1
                     ELSE [env1 EXCEPT !.children[pid].stdout = ToFile(toks[1])])

\* a stdout handler that hands the tokens behind the file name to the program
handle_stdout_redirect_extra_args(toks, proc, env) ==
    IF toks = <<>> THEN Outcome(Panic, env)
    ELSE IF ~open_succeeds(env.fs, toks[1], "truncate")
    THEN Outcome(Err(open_error(env.fs, toks[1], "truncate")), env)
    ELSE IF proc = None THEN Outcome(Panic, open_file(env, toks[1], "truncate"))
    ELSE Outcome(Ok(Some([proc[1] EXCEPT !.stdout = ToFile(toks[1]),
                                      !.args = @ \o Tail(toks)])),
                 open_file(env, toks[1], "truncate"))

\* a stdout handler that, like the stderr handler, runs the command at once
handle_stdout_redirect_eager(toks, proc, env) ==
    IF toks = <<>> THEN Outcome(Panic, env)
    ELSE IF ~open_succeeds(env.fs, toks[1], "truncate")
    THEN Outcome(Err(open_error(env.fs, toks[1], "truncate")), env)
    ELSE IF proc = None THEN Outcome(Panic, open_file(env, toks[1], "truncate"))
    ELSE LET env1 == open_file(env, toks[1], "truncate")
             command == [proc[1] EXCEPT !.stdout = ToFile(toks[1])]
         IN  IF ~spawn_succeeds(command)
             THEN Outcome(Err("NotFound"), env1)
             ELSE Outcome(Ok(Some(command)),
                          wait_last(spawn(env1, output_view(command), "output"), 0))

\* redirect.rs handle_stdout_redirect
handle_stdout_redirect(toks, proc, env) ==
    IF toks = <<>> THEN Outcome(Panic, env)
    ELSE IF ~open_succeeds(env.fs, toks[1], "truncate")
    THEN Outcome(Err(open_error(env.fs, toks[1], "truncate")), env)
    ELSE IF proc = None THEN Outcome(Panic, open_file(env, toks[1], "truncate"))
    ELSE Outcome(Ok(Some([proc[1] EXCEPT !.stdout = ToFile(toks[1])])),
                 open_file(env, toks[1], "truncate"))

\* a stdin handler that binds the file name without opening the file
handle_stdin_redirect_unopened(toks, proc, env) ==
    IF toks = <<>> THEN Outcome(Err("InvalidInput"), env)
    ELSE IF proc = None THEN Outcome(Err("InvalidInput"), env)
    ELSE Outcome(Ok(Some([proc[1] EXCEPT !.stdin = ToFile(toks[1])])), env)

\* redirect.rs handle_stdin_redirect
handle_stdin_redirect(toks, proc, env) ==
    IF toks = <<>> THEN Outcome(Err("InvalidInput"), env)
    ELSE IF ~open_succeeds(env.fs, toks[1], "read")
    THEN Outcome(Err(open_error(env.fs, toks[1], "read")), env)
    ELSE LET env1 == open_file(env, toks[1], "read")
         IN  IF proc = None THEN Outcome(Err("InvalidInput"), env1)
             ELSE Outcome(Ok(Some([proc[1] EXCEPT !.stdin = ToFile(toks[1])])),
                          env1)

\* a pipe handler that wires the right-hand side without starting the left
handle_pipe_no_spawn(commands, proc, env) ==
    IF commands = <<>> THEN Outcome(Err("InvalidInput"), env)
    ELSE Outcome(Ok(Some([Command_new(commands[1], Tail(commands))
                             EXCEPT !.stdin = FromPipe(Len(env.children) + 1)])),
                 env)

\* a pipe handler that leaves a stdout already bound to a file as it is
handle_pipe_keeps_file(commands, proc, env) ==
    IF commands = <<>> THEN Outcome(Err("InvalidInput"), env)
    ELSE IF proc = None THEN Outcome(Panic, env)
    ELSE LET setup_command == Command_new(commands[1], Tail(commands))
             lhs == IF proc[1].stdout.kind = "file" THEN proc[1]
                    ELSE [proc[1] EXCEPT !.stdout = Piped]
         IN  IF ~spawn_succeeds(lhs)
             THEN Outcome(Err("NotFound"), env)
             ELSE LET env1 == spawn(env, lhs, "pipe")
                  IN  Outcome(Ok(Some([setup_command EXCEPT
                                          !.stdin = FromPipe(Len(env1.children))])),
                              env1)

\* redirect.rs handle_pipe
handle_pipe(commands, proc, env) ==
    IF commands = <<>> THEN Outcome(Err("InvalidInput"), env)
    ELSE IF proc = None THEN Outcome(Panic, env)
    ELSE LET setup_command == Command_new(commands[1], Tail(commands))
             lhs == [proc[1] EXCEPT !.stdout = Piped]
         IN  IF ~spawn_succeeds(lhs)
             THEN Outcome(Err("NotFound"), env)
             ELSE LET env1 == spawn(env, lhs, "pipe")
                  IN  Outcome(Ok(Some([setup_command EXCEPT
                                          !.stdin = FromPipe(Len(env1.children))])),
                              env1)

\* redirect.rs redirect
redirect(redirector, command, proc, env, st) ==
    CASE redirector = OpAppend -> handle_append_redirect(command, proc, env)
      [] redirector = OpErr -> handle_stderr_redirect(command, proc, env, st)
      [] redirector = OpBoth -> handle_stdout_stderr_redirect(command, proc, env)
      [] redirector \in {OpOut, OpOut1} -> handle_stdout_redirect(command, proc, env)
      [] redirector = OpIn -> handle_stdin_redirect(command, proc, env)
      [] redirector = OpPipe -> handle_pipe(command, proc, env)
      [] OTHER ->
            IF command = <<>> THEN Outcome(Panic, env)
            ELSE Outcome(Ok(Some(Command_new(command[1], Tail(command)))), env)

-----------------------------------------------------------------------------
(* utils.rs parse_line, one recursion level at a time *)

\* tokens.iter().position(|x| is_special(&x)).unwrap_or(tokens.len()), 0-based
splitter_index(toks) ==
    IF \E i \in 1..Len(toks) : is_special(toks[i])
    THEN (CHOOSE i \in 1..Len(toks) :
              is_special(toks[i]) /\ \A j \in 1..(i - 1) : ~is_special(toks[j])) - 1
    ELSE Len(toks)

\* the redirector parse_line finds in front of its tokens ("" when there is none)
redirector_of(toks) == IF is_special(toks[1]) THEN toks[1] ELSE <<>>

\* the tokens after the redirector
after_redirector(toks) == IF is_special(toks[1]) THEN Tail(toks) ELSE toks

\* `command` of tokens.split_at(splitter_index)
command_of(toks) == SubSeq(after_redirector(toks), 1, splitter_index(after_redirector(toks)))

\* `leftover` of tokens.split_at(splitter_index)
leftover_of(toks) ==
    SubSeq(after_redirector(toks), splitter_index(after_redirector(toks)) + 1,
           Len(after_redirector(toks)))

\* a parse_line that lets an operator through when there is no accumulator
parse_line_no_guard(toks, proc, env, st) ==
    IF toks = <<>>
    THEN [done |-> TRUE, ret |-> Ok(proc), rest |-> <<>>, process |-> proc,
          env |-> env, said |-> <<>>]
    ELSE LET env0 == [env EXCEPT !.folds = @ + 1]
             out == redirect(redirector_of(toks), command_of(toks), proc, env0, st)
         IN  IF out.ret.kind = "Ok"
             THEN [done |-> FALSE, ret |-> NoResult, rest |-> leftover_of(toks),
                   process |-> out.ret.value, env |-> out.env, said |-> <<>>]
             ELSE [done |-> TRUE, ret |-> out.ret, rest |-> toks, process |-> None,
                   env |-> out.env, said |-> <<>>]

\* a parse_line that takes an empty token sequence without accumulator as an error
parse_line_empty_err(toks, proc, env, st) ==
    IF toks = <<>> /\ proc = None
    THEN [done |-> TRUE, ret |-> Err("InvalidInput"), rest |-> <<>>, process |-> proc,
          env |-> env, said |-> <<>>]
    ELSE IF toks = <<>>
    THEN [done |-> TRUE, ret |-> Ok(proc), rest |-> <<>>, process |-> proc,
          env |-> env, said |-> <<>>]
    ELSE IF proc = None /\ redirector_of(toks) # <<>>
    THEN [done |-> TRUE, ret |-> Ok(None), rest |-> toks, process |-> proc,
          env |-> env, said |-> <<"Expected program">>]
    ELSE LET env0 == [env EXCEPT !.folds = @ + 1]
             out == redirect(redirector_of(toks), command_of(toks), proc, env0, st)
         IN  IF out.ret.kind = "Ok"
             THEN [done |-> FALSE, ret |-> NoResult, rest |-> leftover_of(toks),
                   process |-> out.ret.value, env |-> out.env, said |-> <<>>]
             ELSE [done |-> TRUE, ret |-> out.ret, rest |-> toks, process |-> None,
                   env |-> out.env, said |-> <<>>]

\* a parse_line that returns after its first fold, whatever is left of the line
parse_line_one_fold(toks, proc, env, st) ==
    IF toks = <<>>
    THEN [done |-> TRUE, ret |-> Ok(proc), rest |-> <<>>, process |-> proc,
          env |-> env, said |-> <<>>]
    ELSE IF proc = None /\ redirector_of(toks) # <<>>
    THEN [done |-> TRUE, ret |-> Ok(None), rest |-> toks, process |-> proc,
          env |-> env, said |-> <<"Expected program">>]
    ELSE LET env0 == [env EXCEPT !.folds = @ + 1]
             out == redirect(redirector_of(toks), command_of(toks), proc, env0, st)
         IN  IF out.ret.kind = "Ok"
             THEN [done |-> TRUE, ret |-> out.ret, rest |-> leftover_of(toks),
                   process |-> out.ret.value, env |-> out.env, said |-> <<>>]
             ELSE [done |-> TRUE, ret |-> out.ret, rest |-> toks, process |-> None,
                   env |-> out.env, said |-> <<>>]

\* a parse_line that answers an empty line with a specification of its own
parse_line_empty_spec(toks, proc, env, st) ==
    IF toks = <<>> /\ proc = None
    THEN [done |-> TRUE, ret |-> Ok(Some(Command_new(<<>>, <<>>))), rest |-> <<>>,
          process |-> Some(Command_new(<<>>, <<>>)), env |-> env, said |-> <<>>]
    ELSE IF toks = <<>>
    THEN [done |-> TRUE, ret |-> Ok(proc), rest |-> <<>>, process |-> proc,
          env |-> env, said |-> <<>>]
    ELSE IF proc = None /\ redirector_of(toks) # <<>>
    THEN [done |-> TRUE, ret |-> Ok(None), rest |-> toks, process |-> proc,
          env |-> env, said |-> <<"Expected program">>]
    ELSE LET env0 == [env EXCEPT !.folds = @ + 1]
             out == redirect(redirector_of(toks), command_of(toks), proc, env0, st)
         IN  IF out.ret.kind = "Ok"
             THEN [done |-> FALSE, ret |-> NoResult, rest |-> leftover_of(toks),
                   process |-> out.ret.value, env |-> out.env, said |-> <<>>]
             ELSE [done |-> TRUE, ret |-> out.ret, rest |-> toks, process |-> None,
                   env |-> out.env, said |-> <<>>]

\* one level of parse_line: either it returns (done) or it recurses on
\* (leftover, new_process)
parse_line(toks, proc, env, st) ==
    IF toks = <<>>
    THEN [done |-> TRUE, ret |-> Ok(proc), rest |-> <<>>, process |-> proc,
          env |-> env, said |-> <<>>]
    ELSE IF proc = None /\ redirector_of(toks) # <<>>
    THEN [done |-> TRUE, ret |-> Ok(None), rest |-> toks, process |-> proc,
          env |-> env, said |-> <<"Expected program">>]
    ELSE LET env0 == [env EXCEPT !.folds = @ + 1]
             out == redirect(redirector_of(toks), command_of(toks), proc, env0, st)
         IN  IF out.ret.kind = "Ok"
             THEN [done |-> FALSE, ret |-> NoResult, rest |-> leftover_of(toks),
                   process |-> out.ret.value, env |-> out.env, said |-> <<>>]
             ELSE [done |-> TRUE, ret |-> out.ret, rest |-> toks, process |-> None,
                   env |-> out.env, said |-> <<>>]

\* an execute that starts the command and does not wait for it
execute_no_wait(cmd, env, st) ==
    IF ~spawn_succeeds(cmd) THEN Outcome(Err("NotFound"), env)
    ELSE Outcome(Ok(None), spawn(env, cmd, "execute"))

\* utils.rs execute: spawn the command, wait for it, report pid and status
execute(cmd, env, st) ==
    IF ~spawn_succeeds(cmd) THEN Outcome(Err("NotFound"), env)
    ELSE Outcome(Ok(None), wait_last(spawn(env, cmd, "execute"), st))


-----------------------------------------------------------------------------
(* history.rs, and the history built-in of builtin.rs *)

Digits == <<"0", "1", "2", "3", "4", "5", "6", "7", "8", "9">>

DigitValue(c) == (CHOOSE i \in 1..Len(Digits) : Digits[i] = c) - 1

IsDigit(c) == \E i \in 1..Len(Digits) : Digits[i] = c

RECURSIVE DecimalValue(_)
DecimalValue(tok) ==
    IF tok = <<>> THEN 0
    ELSE 10 * DecimalValue(SubSeq(tok, 1, Len(tok) - 1)) + DigitValue(tok[Len(tok)])

\* args[1].parse::<usize>(): Some(n) for a string of digits, None otherwise
parse_usize(tok) ==
    IF tok # <<>> /\ \A i \in 1..Len(tok) : IsDigit(tok[i])
    THEN Some(DecimalValue(tok))
    ELSE None

\* History::add_to_history
add_to_history(commands, command) == Append(commands, command)

\* nothing was shown
NotShown == [ret |-> "none", out |-> <<>>]

\* the `while count != num_commands` loop of display_num_commands; indices
\* are 0-based as in the source, and reading past the end panics
RECURSIVE display_loop(_, _, _, _, _)
display_loop(commands, current_index, count, num_commands, out) ==
    IF count = num_commands THEN [ret |-> "Ok", out |-> out]
    ELSE IF current_index >= Len(commands) THEN [ret |-> "panic", out |-> out]
    ELSE display_loop(commands, current_index + 1, count + 1, num_commands,
                      Append(out, [index |-> current_index,
                                   command |-> commands[current_index + 1]]))

\* a display_num_commands that does not clamp the count to the history length
display_num_commands_unclamped(commands, num) ==
    IF Len(commands) - num < 0 THEN [ret |-> "panic", out |-> <<>>]
    ELSE display_loop(commands, Len(commands) - num, 0, num, <<>>)

\* History::display_num_commands; usize subtraction panics on underflow
display_num_commands(commands, num) ==
    LET num_commands == IF num > Len(commands) THEN Len(commands) ELSE num
    IN  IF Len(commands) - num_commands < 0 THEN [ret |-> "panic", out |-> <<>>]
        ELSE display_loop(commands, Len(commands) - num_commands, 0, num_commands, <<>>)

\* History::display_full_history; its labels count from 1
display_full_history(commands) ==
    [ret |-> "Ok",
     out |-> [i \in 1..Len(commands) |-> [index |-> i, command |-> commands[i]]]]

\* builtin.rs history_builtin
history_builtin(args, commands) ==
    IF Len(args) = 1 THEN display_full_history(commands)
    ELSE IF Len(args) = 2
    THEN IF parse_usize(args[2]) # None
         THEN display_num_commands(commands, parse_usize(args[2])[1])
         ELSE [ret |-> "Err", out |-> <<>>]
    ELSE [ret |-> "Err", out |-> <<>>]

\* the counts typed behind `history`
NumTokens == {<<Digits[n + 1]>> : n \in 0..MaxNum}

\* the lines the history is followed over: empty, plain, redirecting, failing
\* to run, built-in, and the history built-in with and without a count
HistoryLines ==
    {<<>>, <<Wa>>, <<Wa, OpOut, Wf>>, <<Wf>>, <<Wcd>>,
     <<Whistory>>, <<Whistory, Wa>>, <<Whistory, <<"1">>, <<"1">>>>}
        \cup {<<Whistory, n>> : n \in NumTokens}

-----------------------------------------------------------------------------
(* main.rs: the read-eval loop *)

FileStates == {"absent", "empty", "data", "dir"}

\* file systems the shell may be started in: only f may exist beforehand
InitialFs ==
    {files \in [FileNames -> FileStates] : \A n \in FileNames \ {Wf} : files[n] = "absent"}

\* the world the handlers act on
CurEnv ==
    [fs |-> fs, opened |-> opened, children |-> children, waited |-> waited,
     folds |-> folds]

\* builtin.rs builtin: does the first token name a built-in?
builtin(commands) == commands # <<>> /\ commands[1] \in Builtins

\* builtin.rs: what the built-in named by commands[0] can answer.  pwd always
\* succeeds, clear fails exactly when it is given arguments; the others depend
\* on the directory tree and may succeed or fail
builtin_answers(commands) ==
    IF commands[1] = Wpwd THEN {TRUE}
    ELSE IF commands[1] = Wclear THEN {Len(commands) = 1}
    ELSE BOOLEAN

\* a loop that hands every line to the engine, built-in or not
Dispatch_no_builtin(l, said) ==
    /\ dispatched' = "Ok(false)"
    /\ pc' = "parse"
    /\ rest' = l
    /\ diag' = diag \o said

\* main.rs: `if let Ok(false) = builtin(&tokens, &mut history)`
Dispatch(l, said) ==
    IF builtin(l)
    THEN /\ \E ok \in builtin_answers(l) :
              /\ dispatched' = IF ok THEN "Ok(true)" ELSE "Err"
              /\ diag' = IF ok THEN diag \o said
                         ELSE Append(diag \o said, "builtin failed")
         /\ pc' = "finished"
         /\ rest' = <<>>
    ELSE /\ dispatched' = "Ok(false)"
         /\ pc' = "parse"
         /\ rest' = l
         /\ diag' = diag \o said

\* main.rs: prompt_and_read, add_to_history, builtin dispatch, parse_line(&tokens, None)
ReadLine ==
    /\ pc = "prompt"
    /\ \E inp \in IF stdin = "eof" THEN {[kind |-> "eof", raw |-> <<>>]} ELSE Inputs :
          /\ stdin' = IF inp.kind = "eof" THEN "eof" ELSE stdin
          /\ input' = inp.kind
          /\ raw' = inp.raw
          /\ IF inp.kind = "line" /\ ~grammar_accepts(inp.raw)
             THEN \* .expect("Failed to parse") panics
                  /\ pc' = "crashed"
                  /\ tokens' = <<>>
                  /\ rest' = <<>>
                  /\ dispatched' = "none"
                  /\ diag' = Append(diag, "Failed to parse")
             ELSE \E t \in {unwrap_or_empty(prompt_and_read(inp))} :
                  /\ tokens' = t
                  /\ Dispatch(t, IF inp.kind = "error"
                                  THEN <<"Error taking user input">> ELSE <<>>)
    /\ process' = None
    /\ fs_before' = fs
    /\ UNCHANGED <<result, fs, opened, children, waited, reported, folds,
                   probe, verdict, history, printed>>

\* one recursion level of parse_line(rest, process)
ParseStep ==
    /\ pc = "parse"
    /\ \E st \in ExitStatuses :
          \E lv \in {parse_line(rest, process, CurEnv, st)} :
              /\ fs' = lv.env.fs
              /\ opened' = lv.env.opened
              /\ children' = lv.env.children
              /\ waited' = lv.env.waited
              /\ folds' = lv.env.folds
              /\ diag' = diag \o lv.said
              /\ rest' = lv.rest
              /\ process' = lv.process
              /\ result' = lv.ret
              /\ pc' = IF lv.ret.kind = "panic" THEN "crashed"
                       ELSE IF lv.done THEN "parsed" ELSE "parse"
    /\ UNCHANGED <<stdin, input, raw, tokens, fs_before, reported, dispatched, probe, verdict,
                   history, printed>>

\* main.rs: what the loop does with parsed_command
MainExecute ==
    /\ pc = "parsed"
    /\ IF result.kind = "Ok" /\ result.value # None
       THEN \E st \in ExitStatuses :
               \E out \in {execute(result.value[1], CurEnv, st)} :
                   /\ children' = out.env.children
                   /\ waited' = out.env.waited
                   /\ IF out.ret.kind = "Err"
                      THEN /\ reported' = reported
                           /\ IF tokens = <<>>
                              THEN pc' = "crashed" /\ diag' = diag
                              ELSE IF tokens[1] = Wexit
                              THEN pc' = "exited" /\ diag' = diag
                              ELSE /\ pc' = "finished"
                                   /\ diag' = Append(diag, "Could not execute process")
                      ELSE /\ reported' = Append(reported,
                                  [pid |-> Len(out.env.children),
                                   status |-> out.env.children[Len(out.env.children)].status])
                           /\ pc' = "finished"
                           /\ diag' = diag
       ELSE /\ diag' = IF result.kind = "Err" THEN Append(diag, result.err) ELSE diag
            /\ pc' = "finished"
            /\ UNCHANGED <<children, waited, reported>>
    /\ UNCHANGED <<stdin, input, raw, tokens, rest, process, result, fs, fs_before, opened,
                   folds, dispatched, probe, verdict, history, printed>>

\* main.rs `loop`: back to the prompt; what was recorded about the line is dropped
NextLine ==
    /\ pc = "finished"
    /\ pc' = "prompt"
    /\ tokens' = <<>>
    /\ rest' = <<>>
    /\ process' = None
    /\ result' = NoResult
    /\ opened' = <<>>
    /\ children' = <<>>
    /\ waited' = <<>>
    /\ reported' = <<>>
    /\ diag' = <<>>
    /\ folds' = 0
    /\ dispatched' = "none"
    /\ fs_before' = fs
    /\ input' = "none"
    /\ raw' = <<>>
    /\ UNCHANGED <<stdin, fs, probe, verdict, history, printed>>

Init ==
    /\ history = <<>>
    /\ printed = NotShown
    /\ stdin = "open"
    /\ input = "none"
    /\ raw = <<>>
    /\ pc = "prompt"
    /\ tokens = <<>>
    /\ rest = <<>>
    /\ process = None
    /\ result = NoResult
    /\ fs \in InitialFs
    /\ fs_before = fs
    /\ opened = <<>>
    /\ children = <<>>
    /\ waited = <<>>
    /\ reported = <<>>
    /\ diag = <<>>
    /\ folds = 0
    /\ dispatched = "none"
    /\ probe = <<>>
    /\ verdict = FALSE

Next == ReadLine \/ ParseStep \/ MainExecute \/ NextLine

Spec == Init /\ [][Next]_vars

-----------------------------------------------------------------------------
(* is_special exercised alone, on every token of at most MaxTokLen characters *)

InitClassify ==
    /\ history = <<>>
    /\ printed = NotShown
    /\ stdin = "open"
    /\ input = "none"
    /\ raw = <<>>
    /\ pc = "classify"
    /\ probe \in TokensUpTo(MaxTokLen)
    /\ verdict = FALSE
    /\ tokens = <<>>
    /\ rest = <<>>
    /\ process = None
    /\ result = NoResult
    /\ fs = [n \in FileNames |-> "absent"]
    /\ fs_before = fs
    /\ opened = <<>>
    /\ children = <<>>
    /\ waited = <<>>
    /\ reported = <<>>
    /\ diag = <<>>
    /\ folds = 0
    /\ dispatched = "none"

Classify ==
    /\ pc = "classify"
    /\ verdict' = is_special(probe)
    /\ pc' = "classified"
    /\ UNCHANGED <<stdin, input, raw, tokens, rest, process, result, fs, fs_before, opened,
                   children, waited, reported, diag, folds, dispatched, probe,
                   history, printed>>

NextClassify == Classify

SpecClassify == InitClassify /\ [][NextClassify]_vars

-----------------------------------------------------------------------------
(* The loop as the History object sees it.  parse_line and execute are not   *)
(* handed the history, so one step here is one whole iteration of the loop:  *)
(* read, add_to_history, dispatch.  Only the history built-in reads it.      *)

InitHistory ==
    /\ history = <<>>
    /\ printed = NotShown
    /\ stdin = "open"
    /\ input = "none"
    /\ raw = <<>>
    /\ pc = "iterate"
    /\ probe = <<>>
    /\ verdict = FALSE
    /\ tokens = <<>>
    /\ rest = <<>>
    /\ process = None
    /\ result = NoResult
    /\ fs = [n \in FileNames |-> "absent"]
    /\ fs_before = fs
    /\ opened = <<>>
    /\ children = <<>>
    /\ waited = <<>>
    /\ reported = <<>>
    /\ diag = <<>>
    /\ folds = 0
    /\ dispatched = "none"

\* main.rs: one iteration, up to the dispatch on the first token
Iterate ==
    /\ pc = "iterate"
    /\ Len(history) < MaxHistory
    /\ \E l \in HistoryLines :
          \E h \in {add_to_history(history, l)} :
              /\ tokens' = l
              /\ history' = h
              /\ printed' = IF l # <<>> /\ l[1] = Whistory
                            THEN history_builtin(l, h)
                            ELSE NotShown
              /\ pc' = IF printed'.ret = "panic" THEN "crashed" ELSE "iterate"
    /\ UNCHANGED <<stdin, input, raw, rest, process, result, fs, fs_before, opened,
                   children, waited, reported, diag, folds, dispatched, probe, verdict>>

NextHistory == Iterate

SpecHistory == InitHistory /\ [][NextHistory]_vars


-----------------------------------------------------------------------------
(* Properties *)

\* no token of the line is classified as an operator
NoOperator(l) == \A i \in 1..Len(l) : ~is_special(l[i])

\* the engine, not a built-in, was given the current line
Engine == dispatched = "Ok(false)"

\* C1: a non-empty line without operator tokens assembles to exactly one
\* process specification, program tokens[0], arguments tokens[1..] in order,
\* all three streams inherited; assembly starts no process and opens no file.
C1_PlainLineOneSpec ==
    (Engine /\ tokens # <<>> /\ NoOperator(tokens)) =>
        /\ pc # "crashed"
        /\ pc \in {"parse", "parsed"} =>
              children = <<>> /\ opened = <<>> /\ fs = fs_before
        /\ pc = "parsed" =>
              /\ folds = 1
              /\ result.kind = "Ok"
              /\ result.value = <<[prog |-> tokens[1], args |-> Tail(tokens),
                                   stdin |-> Inherit, stdout |-> Inherit,
                                   stderr |-> Inherit]>>

C1_Witness ==
    /\ pc = "parsed"
    /\ tokens = <<Wa, Wf, Wa>>
    /\ result.kind = "Ok"
    /\ result.value # None

\* C2 as stated: is_special answers true exactly for the single characters
\* < > | ! and for the two-CHARACTER tokens whose second character is >.
C2_AsStated ==
    pc = "classified" =>
        (verdict <=> \/ probe \in {<<"<">>, <<">">>, <<"|">>, <<"!">>}
                     \/ Len(probe) = 2 /\ probe[2] = ">")

\* C2, amended: is_special answers true exactly for the single characters
\* < > | ! and for the tokens of two BYTES whose second byte is >, that is the
\* two-character tokens ending in > whose first character is a one-byte
\* character; it answers false for every other token.
C2_TwoBytes ==
    pc = "classified" =>
        (verdict <=> \/ probe \in {<<"<">>, <<">">>, <<"|">>, <<"!">>}
                     \/ /\ Len(probe) = 2
                        /\ probe[2] = ">"
                        /\ Utf8Width(probe[1]) = 1)

C2_Witness ==
    /\ pc = "classified"
    /\ probe = <<EAcute, ">">>
    /\ ~verdict

\* C3: a line whose first token is classified as an operator has no side
\* effect: no file is created, truncated or opened and no process is started.
C3_LeadingOperatorNoEffects ==
    (Engine /\ tokens # <<>> /\ is_special(tokens[1])) =>
        /\ opened = <<>>
        /\ children = <<>>
        /\ fs = fs_before
        /\ pc # "crashed"

C3_Witness ==
    /\ pc = "parsed"
    /\ tokens = <<OpOut, Wf>>
    /\ fs[Wf] = "absent"
    /\ diag = <<"Expected program">>


\* C4 as stated: an operator met with an empty accumulator makes parse_line
\* return an error result (Err), not a successful one.
C4_AsStated ==
    (Engine /\ pc = "parsed" /\ tokens # <<>> /\ is_special(tokens[1])) =>
        result.kind = "Err"

\* every operator of the line is one redirect knows, the line starts with a
\* program, and some operator is last or directly followed by an operator
EmptyOperandLine(l) ==
    /\ l # <<>>
    /\ ~is_special(l[1])
    /\ \A i \in 1..Len(l) : is_special(l[i]) => l[i] \in Recognized
    /\ \E i \in 1..Len(l) :
          is_special(l[i]) /\ (i = Len(l) \/ is_special(l[i + 1]))

\* C5 as stated: a recognized operator with an empty operand segment makes
\* parse_line return an error value; the shell does not crash.
C5_AsStated ==
    (Engine /\ EmptyOperandLine(tokens)) =>
        /\ pc # "crashed"
        /\ pc = "parsed" => result.kind = "Err"

\* the line is `cmd [args] < path`
StdinLine(l) ==
    /\ Len(l) >= 3
    /\ l[Len(l) - 1] = OpIn
    /\ NoOperator(SubSeq(l, 1, Len(l) - 2))
    /\ ~is_special(l[Len(l)])

\* C6: for `cmd [args] < path` with no file at path, parse_line returns a
\* resource error and no process is started for the line, neither during
\* assembly nor by the final execute step.
C6_MissingInputNoSpawn ==
    (Engine /\ StdinLine(tokens) /\ fs_before[tokens[Len(tokens)]] = "absent") =>
        /\ children = <<>>
        /\ opened = <<>>
        /\ pc \notin {"crashed", "exited"}
        /\ pc \in {"parsed", "finished"} =>
              result = [kind |-> "Err", value |-> None, err |-> "NotFound"]

C6_Witness ==
    /\ pc = "finished"
    /\ tokens = <<Wa, OpIn, Wf>>
    /\ fs_before[Wf] = "absent"
    /\ result.kind = "Err"
    /\ diag = <<"NotFound">>


\* how often token t occurs in line l
Count(l, t) == Cardinality({i \in 1..Len(l) : l[i] = t})

\* the operator tokens of a line, in order
OpsOf(l) == SelectSeq(l, is_special)

\* children started from call site `by`
StartedBy(by) == {k \in 1..Len(children) : children[k].by = by}

\* how often the shell waited on child k
Waits(k) == Cardinality({i \in 1..Len(waited) : waited[i] = k})

\* operand segments joined by "|": no other operator, no empty segment
PipeLine(l) ==
    /\ l # <<>>
    /\ ~is_special(l[1])
    /\ ~is_special(l[Len(l)])
    /\ \A i \in 1..Len(l) : is_special(l[i]) => l[i] = OpPipe
    /\ \A i \in 1..(Len(l) - 1) : ~(is_special(l[i]) /\ is_special(l[i + 1]))

\* the segments of a line between its "|" tokens
RECURSIVE SplitPipes(_)
SplitPipes(l) ==
    IF \A i \in 1..Len(l) : l[i] # OpPipe THEN <<l>>
    ELSE LET i == CHOOSE k \in 1..Len(l) :
                      l[k] = OpPipe /\ \A j \in 1..(k - 1) : l[j] # OpPipe
         IN  <<SubSeq(l, 1, i - 1)>> \o SplitPipes(SubSeq(l, i + 1, Len(l)))

\* C7: in a line of N segments joined by "|" the processes are started in
\* segment order; segment k is started when the k-th "|" is folded (fold k+1),
\* its stdout a new pipe whose read end is the stdin of segment k+1; the last
\* segment is started only by execute, after all tokens have been consumed.
\* (A segment whose program cannot be launched ends the line with an error.)
C7_PipelineOrder ==
    (Engine /\ PipeLine(tokens)) =>
        LET segs == SplitPipes(tokens)
            N == Len(segs)
        IN  /\ pc # "crashed"
            /\ Len(children) <= N
            /\ \A k \in 1..Len(children) :
                  /\ children[k].prog = segs[k][1]
                  /\ children[k].args = Tail(segs[k])
                  /\ children[k].stdin = IF k = 1 THEN Inherit ELSE FromPipe(k - 1)
                  /\ k < N => /\ children[k].by = "pipe"
                              /\ children[k].at = k + 1
                              /\ children[k].stdout = Piped
                  /\ k = N => /\ children[k].by = "execute"
                              /\ children[k].stdout = Inherit
                              /\ rest = <<>>
                              /\ pc = "finished"
            /\ \A k \in 1..(N - 1) :
                  (folds >= k + 1 /\ \A j \in 1..k : segs[j][1] \in Executables)
                      => Len(children) >= k
            /\ (pc \in {"parse", "parsed"} /\ process # None) =>
                  /\ process[1].prog = segs[folds][1]
                  /\ process[1].stdin =
                        IF folds = 1 THEN Inherit ELSE FromPipe(folds - 1)
            /\ (pc = "finished" /\ \A j \in 1..N : segs[j][1] \in Executables)
                  => Len(children) = N

C7_Witness ==
    /\ pc = "finished"
    /\ tokens = <<Wa, OpPipe, Wa, OpPipe, Wa>>
    /\ Len(children) = 3
    /\ children[3].stdin = FromPipe(2)

\* C8 as stated (read for a final process that can be launched): after a
\* successfully assembled line the shell has waited on exactly one process,
\* the one started from the last specification, and reported its pid and status.
C8_AsStated ==
    (/\ Engine
     /\ pc = "finished"
     /\ result.kind = "Ok"
     /\ result.value # None
     /\ result.value[1].prog \in Executables) =>
        /\ children # <<>>
        /\ children[Len(children)].by = "execute"
        /\ waited = <<Len(children)>>
        /\ reported = <<[pid |-> Len(children),
                         status |-> children[Len(children)].status]>>

\* C8, amended: after a successfully assembled line, execute waits on exactly
\* one process, the one started from the last specification (on none when that
\* program cannot be launched), and the pid and status reported are its own;
\* processes started for "|" are never waited on; the only other waits are the
\* one each folded "2>" made on its own run of the command.
C8_FinalWait ==
    (/\ Engine
     /\ pc \in {"finished", "exited"}
     /\ result.kind = "Ok"
     /\ result.value # None) =>
        LET n == Len(children)
            launched == result.value[1].prog \in Executables
        IN  /\ \A i \in 1..Len(waited) : children[waited[i]].by \in {"output", "execute"}
            /\ \A k \in StartedBy("pipe") : Waits(k) = 0 /\ children[k].status = "running"
            /\ \A k \in StartedBy("output") : Waits(k) = 1
            /\ Cardinality(StartedBy("output")) = Count(tokens, OpErr)
            /\ Len(waited) = Count(tokens, OpErr) + (IF launched THEN 1 ELSE 0)
            /\ launched =>
                  /\ StartedBy("execute") = {n}
                  /\ children[n].prog = result.value[1].prog
                  /\ children[n].args = result.value[1].args
                  /\ children[n].stdin = result.value[1].stdin
                  /\ children[n].stdout = result.value[1].stdout
                  /\ children[n].stderr = result.value[1].stderr
                  /\ children[n].status \in ExitStatuses
                  /\ waited[Len(waited)] = n
                  /\ Waits(n) = 1
                  /\ reported = <<[pid |-> n, status |-> children[n].status]>>
            /\ ~launched => StartedBy("execute") = {} /\ reported = <<>>

C8_Witness ==
    /\ pc = "finished"
    /\ tokens = <<Wa, OpPipe, Wa, OpErr, Wf>>
    /\ waited = <<2, 3>>
    /\ Len(reported) = 1
    /\ reported[1].pid = 3

\* C9 as stated: during assembly a process is started only when a "|" is
\* folded: at most N-1 before assembly completes, at most N in total, for a
\* line with N pipe-separated segments (N-1 "|" tokens).
C9_AsStated ==
    Engine =>
        /\ \A k \in 1..Len(children) : children[k].by \in {"pipe", "execute"}
        /\ Cardinality(StartedBy("pipe")) <= Count(tokens, OpPipe)
        /\ Len(children) <= Count(tokens, OpPipe) + 1
        /\ pc \in {"parse", "parsed"} => StartedBy("execute") = {}

\* C9, amended: during assembly a process is started only when a "|" or a
\* "2>" is folded, one per fold: a line with N pipe-separated segments and K
\* "2>" operators starts at most N-1+K processes before assembly completes
\* and at most N+K in total.
C9_SpawnPoints ==
    Engine =>
        /\ \A k \in 1..Len(children) :
              /\ children[k].by \in {"pipe", "output", "execute"}
              /\ children[k].by = "pipe" =>
                    /\ children[k].at >= 2
                    /\ OpsOf(tokens)[children[k].at - 1] = OpPipe
              /\ children[k].by = "output" =>
                    /\ children[k].at >= 2
                    /\ OpsOf(tokens)[children[k].at - 1] = OpErr
              /\ children[k].by = "execute" => pc \in {"finished"} /\ k = Len(children)
              /\ \A j \in 1..(k - 1) :
                    children[k].by # "execute" => children[j].at < children[k].at
        /\ Cardinality(StartedBy("pipe")) <= Count(tokens, OpPipe)
        /\ Cardinality(StartedBy("output")) <= Count(tokens, OpErr)
        /\ Cardinality(StartedBy("execute")) <= 1
        /\ pc \in {"parse", "parsed"} =>
              /\ StartedBy("execute") = {}
              /\ Len(children) <= Count(tokens, OpPipe) + Count(tokens, OpErr)
        /\ Len(children) <= Count(tokens, OpPipe) + 1 + Count(tokens, OpErr)

C9_Witness ==
    /\ pc = "finished"
    /\ tokens = <<Wa, OpErr, Wf, OpPipe, Wa>>
    /\ Len(children) = 3
    /\ children[1].by = "output"
    /\ children[2].by = "pipe"
    /\ children[3].by = "execute"

\* the line is `cmd [args] 2> file`
StderrLine(l) ==
    /\ Len(l) >= 3
    /\ l[Len(l) - 1] = OpErr
    /\ NoOperator(SubSeq(l, 1, Len(l) - 2))
    /\ ~is_special(l[Len(l)])

\* C10: a line `cmd [args] 2> file` that assembles successfully has run the
\* command to completion once when "2>" was folded; the same specification is
\* returned and run again by the final execute step: the command runs twice.
C10_RunsTwice ==
    (Engine /\ StderrLine(tokens) /\ result.kind = "Ok") =>
        LET file == tokens[Len(tokens)]
            args == SubSeq(tokens, 2, Len(tokens) - 2)
        IN  /\ pc \in {"parsed", "finished"}
            /\ result.value = <<[prog |-> tokens[1], args |-> args,
                                 stdin |-> Inherit, stdout |-> Inherit,
                                 stderr |-> ToFile(file)]>>
            /\ Len(children) >= 1
            /\ children[1].by = "output"
            /\ children[1].at = 2
            /\ children[1].prog = tokens[1]
            /\ children[1].args = args
            /\ children[1].stderr = ToFile(file)
            /\ children[1].status \in ExitStatuses
            /\ pc = "parsed" => Len(children) = 1 /\ waited = <<1>>
            /\ pc = "finished" =>
                  /\ Len(children) = 2
                  /\ waited = <<1, 2>>
                  /\ children[2].by = "execute"
                  /\ children[2].prog = tokens[1]
                  /\ children[2].args = args
                  /\ children[2].stderr = ToFile(file)
                  /\ children[2].status \in ExitStatuses

C10_Witness ==
    /\ pc = "finished"
    /\ tokens = <<Wa, OpErr, Wf>>
    /\ Len(children) = 2
    /\ waited = <<1, 2>>

\* the assembler is about to fold operator `op` onto an accumulator, with a
\* file name behind the operator
Folding(op) ==
    /\ pc = "parse"
    /\ process # None
    /\ rest # <<>>
    /\ redirector_of(rest) = op
    /\ command_of(rest) # <<>>

\* the file named behind the operator being folded
FoldedFile == command_of(rest)[1]

\* C11: folding a redirection opens the named file in the mode of the
\* operator's spelling: ">", "1>", "&>" and "2>" create the file if absent
\* and leave it empty; ">>" creates it if absent and keeps existing content;
\* "<" never creates a file and fails when the file does not exist.  (A name
\* that is a directory cannot be opened for writing and is left as it is.)
C11_OpenModes ==
    [][ /\ \A op \in {OpOut, OpOut1, OpBoth, OpErr} :
             Folding(op) =>
                 /\ fs' = [fs EXCEPT ![FoldedFile] = IF @ = "dir" THEN @ ELSE "empty"]
                 /\ fs[FoldedFile] = "dir" => result'.kind = "Err"
        /\ Folding(OpAppend) =>
                 /\ fs' = [fs EXCEPT ![FoldedFile] = IF @ = "absent" THEN "empty" ELSE @]
                 /\ fs[FoldedFile] = "dir" => result'.kind = "Err"
        /\ Folding(OpIn) =>
                 /\ fs' = fs
                 /\ fs[FoldedFile] = "absent" => result'.kind = "Err" /\ pc' = "parsed"
                 /\ fs[FoldedFile] # "absent" => result'.kind # "Err"
      ]_vars

\* `a >> f` was assembled over an f with content, which is still there, and
\* the file was opened once for appending
C11_Witness ==
    /\ pc = "parsed"
    /\ tokens = <<Wa, OpAppend, Wf>>
    /\ fs_before[Wf] = "data"
    /\ fs[Wf] = "data"
    /\ opened = <<[file |-> Wf, mode |-> "append"]>>
    /\ result.kind = "Ok"

\* the lexeme the head of `rest` was read from
HeadLexeme == raw[Len(tokens) - Len(rest) + 1]

\* C12, as stated: whenever the assembler looks at a token that was read from
\* a double-quoted span, it takes it as command text and not as an operator.
C12_AsStated ==
    (pc = "parse" /\ rest # <<>> /\ Rule(HeadLexeme) = "quoted") =>
        redirector_of(rest) = <<>>

\* C13: for an empty token sequence the assembler is a no-op: parse_line
\* returns the accumulator it was given (None) without error, no process is
\* spawned, no file is opened, the assembler and the loop print nothing (the
\* only text is prompt_and_read's own when reading failed), and the loop goes
\* on to the next prompt.
C13_EmptyLineNoOp ==
    (Engine /\ tokens = <<>>) =>
        /\ pc \in {"parse", "parsed", "finished"}
        /\ pc \in {"parsed", "finished"} =>
              result = [kind |-> "Ok", value |-> <<>>, err |-> ""]
        /\ process = <<>>
        /\ folds = 0
        /\ children = <<>>
        /\ opened = <<>>
        /\ fs = fs_before
        /\ reported = <<>>
        /\ diag = IF input = "error" THEN <<"Error taking user input">> ELSE <<>>

\* an empty line went through parse_line and the loop is ready for the next prompt
C13_Witness ==
    /\ pc = "finished"
    /\ Engine
    /\ input = "line"
    /\ tokens = <<>>
    /\ result.kind = "Ok"
    /\ diag = <<>>

\* C14: a line whose first token is a built-in name never reaches the
\* pipeline engine, whether the built-in succeeds or fails and whatever
\* operator tokens follow: parse_line is not invoked, no redirection file is
\* opened and no process is spawned.
C14_BuiltinBypass ==
    (pc \in {"parse", "parsed", "finished", "exited", "crashed"}
        /\ tokens # <<>> /\ tokens[1] \in Builtins) =>
        /\ dispatched \in {"Ok(true)", "Err"}
        /\ pc = "finished"
        /\ folds = 0
        /\ result = [kind |-> "none", value |-> <<>>, err |-> ""]
        /\ process = <<>>
        /\ opened = <<>>
        /\ children = <<>>

\* `cd > f` failed as a built-in; the redirection behind it was not acted on
C14_Witness ==
    /\ pc = "finished"
    /\ tokens = <<Wcd, OpOut, Wf>>
    /\ dispatched = "Err"
    /\ fs[Wf] = "data"
    /\ opened = <<>>

\* the final execute step of the line could not start its program
ExecuteFailed ==
    /\ pc \in {"finished", "exited", "crashed"}
    /\ result.kind = "Ok"
    /\ result.value # <<>>
    /\ result.value[1].prog \notin Executables

\* C15, as stated: the loop stops on a line exactly when the line's first
\* token is `exit`, the line assembled to a final specification and running
\* it failed; a failed execution of any other line prints a diagnostic and
\* the loop continues.
C15_AsStated ==
    /\ pc \in {"exited", "crashed"} <=>
          (ExecuteFailed /\ tokens # <<>> /\ tokens[1] = Wexit)
    /\ (ExecuteFailed /\ tokens # <<>> /\ tokens[1] # Wexit) =>
          /\ pc = "finished"
          /\ diag # <<>>
          /\ diag[Len(diag)] = "Could not execute process"

\* C16, as stated: whatever lex, assembly or resource error a line runs
\* into, only that line is abandoned: the shell process does not terminate.
C16_AsStated == pc # "crashed"

\* C17, as stated: once end of input has been read, the loop terminates: no
\* further prompt is issued.
C17_AsStated == ~(stdin = "eof" /\ pc = "prompt")

\* the line has neither "|" nor "2>"
NoPipeNoStderr(l) == Count(l, OpPipe) = 0 /\ Count(l, OpErr) = 0

\* C18, as stated: assembling a token sequence with neither "|" nor "2>"
\* leaves the file system and the set of spawned processes as they were.
C18_AsStated ==
    (Engine /\ NoPipeNoStderr(tokens) /\ pc = "parsed") =>
        /\ fs = fs_before
        /\ children = <<>>

\* C18, amended: assembling a token sequence with neither "|" nor "2>"
\* spawns no process, and changes the file system only through its output
\* redirections: a file differs from before only if it is named behind a
\* ">", "1>", "&>" or ">>" of the line, and then it has become empty: created,
\* or (not for ">>") emptied of its content.  A line with none of these
\* operators leaves the file system unchanged.
C18_OnlyOutputFiles ==
    (Engine /\ NoPipeNoStderr(tokens) /\ pc \in {"parse", "parsed"}) =>
        /\ children = <<>>
        /\ \A n \in DOMAIN fs :
              fs[n] # fs_before[n] =>
                  /\ fs[n] = "empty"
                  /\ \E i \in 2..(Len(tokens) - 1) :
                        /\ tokens[i + 1] = n
                        /\ \/ tokens[i] \in {OpOut, OpOut1, OpBoth}
                           \/ tokens[i] = OpAppend /\ fs_before[n] = "absent"

\* `a > f` was assembled: f lost its content and nothing was spawned
C18_Witness ==
    /\ pc = "parsed"
    /\ tokens = <<Wa, OpOut, Wf>>
    /\ fs_before[Wf] = "data"
    /\ fs[Wf] = "empty"
    /\ children = <<>>
    /\ result.kind = "Ok"

\* C19, as stated: every token classified as an operator that the assembler
\* folds onto a non-empty accumulator is one of the seven recognized
\* spellings, so redirect's fallback arm is only reached with an empty
\* redirector.
C19_AsStated ==
    (pc = "parse" /\ process # <<>> /\ rest # <<>> /\ redirector_of(rest) # <<>>) =>
        redirector_of(rest) \in Recognized

\* C20, as stated: once a step of assembling a line fails, parse_line returns
\* that first error at once: the failure is an error result in the loop's
\* hands, nothing was opened or spawned after the failing fold, the rest of
\* the line was not processed and the final execute step is not run.
C20_AsStated ==
    (Engine /\ result.kind \in {"Err", "panic"}) =>
        /\ result.kind = "Err"
        /\ pc \in {"parsed", "finished"}
        /\ StartedBy("execute") = {}
        /\ \A k \in 1..Len(children) : children[k].at <= folds
        /\ folds <= Len(OpsOf(tokens)) + 1

\* C21: a redirection operator changes stream bindings of the current
\* accumulator only (the specification of the segment behind the most recent
\* "|"): the program and its arguments stay, exactly the streams the operator
\* names are bound to its file, and the processes spawned so far, with their
\* bindings, are left as they are.
C21_BindsAccumulatorOnly ==
    [][ \A op \in {OpIn, OpOut, OpOut1, OpErr, OpAppend, OpBoth} :
            (Folding(op) /\ process' # <<>>) =>
                LET old == process[1]
                    new == process'[1]
                    file == [kind |-> "file", file |-> FoldedFile, pid |-> 0]
                IN  /\ new.prog = old.prog
                    /\ new.args = old.args
                    /\ new.stdin = IF op = OpIn THEN file ELSE old.stdin
                    /\ new.stdout = IF op \in {OpOut, OpOut1, OpAppend, OpBoth}
                                    THEN file ELSE old.stdout
                    /\ new.stderr = IF op \in {OpErr, OpBoth} THEN file ELSE old.stderr
                    /\ Len(children') >= Len(children)
                    /\ SubSeq(children', 1, Len(children)) = children
                    /\ op # OpErr => children' = children
      ]_vars

\* `a | a > f` was assembled: the file is bound to the second command's
\* stdout, the first one runs with its stdout on the pipe
C21_Witness ==
    /\ pc = "parsed"
    /\ tokens = <<Wa, OpPipe, Wa, OpOut, Wf>>
    /\ Len(children) = 1
    /\ children[1].stdout = [kind |-> "piped", file |-> <<>>, pid |-> 0]
    /\ result.kind = "Ok"
    /\ result.value # <<>>
    /\ result.value[1].stdin = [kind |-> "pipe", file |-> <<>>, pid |-> 1]
    /\ result.value[1].stdout = [kind |-> "file", file |-> Wf, pid |-> 0]

\* the current line is done with: it went to a built-in, or it was abandoned
\* (nothing to run, or an error), or it was assembled to its end and its
\* final process was started, has terminated and was waited on
LineSettled ==
    \/ dispatched \in {"Ok(true)", "Err"}
    \/ /\ Engine
       /\ result.kind = "Err" \/ (result.kind = "Ok" /\ result.value = <<>>)
       /\ StartedBy("execute") = {}
    \/ /\ Engine
       /\ result.kind = "Ok"
       /\ result.value # <<>>
       /\ rest = <<>>
       /\ \/ /\ result.value[1].prog \notin Executables
             /\ StartedBy("execute") = {}
          \/ /\ StartedBy("execute") = {Len(children)}
             /\ children[Len(children)].status \in ExitStatuses
             /\ waited # <<>>
             /\ waited[Len(waited)] = Len(children)

\* C22: lines are processed one at a time: the next prompt is issued only
\* when the current line is done with (assembled to its end with its final
\* process waited on, or abandoned), and the line being worked on is not
\* replaced while it is assembled or executed.
C22_OneLineAtATime ==
    /\ [](pc = "finished" => LineSettled)
    /\ [][ /\ pc' = "prompt" => pc = "finished" /\ LineSettled
           /\ pc \in {"parse", "parsed"} => tokens' = tokens /\ raw' = raw
      ]_vars

\* `a | a` is done with: its final process was waited on (the upstream one,
\* started by the pipe, was not) and the next prompt can be issued
C22_Witness ==
    /\ pc = "finished"
    /\ tokens = <<Wa, OpPipe, Wa>>
    /\ Len(children) = 2
    /\ children[1].status = "running"
    /\ children[2].status \in ExitStatuses
    /\ waited = <<2>>
    /\ ENABLED NextLine

\* C23: when "|" is folded onto an accumulator whose stdout an earlier ">",
\* "1>", ">>" or "&>" of the segment bound to a file, the upstream process is
\* spawned with its stdout on the pipe: the pipe binding replaces the file
\* binding, although the file was already created or truncated.
C23_PipeReplacesFile ==
    [][ (Folding(OpPipe) /\ process[1].stdout.kind = "file"
            /\ process[1].prog \in Executables) =>
            /\ children' = Append(children,
                    [prog |-> process[1].prog, args |-> process[1].args,
                     stdin |-> process[1].stdin,
                     stdout |-> [kind |-> "piped", file |-> <<>>, pid |-> 0],
                     stderr |-> process[1].stderr,
                     by |-> "pipe", at |-> folds + 1, status |-> "running"])
            /\ fs' = fs
            /\ fs[process[1].stdout.file] \in {"empty", "data"}
            /\ \E i \in 1..Len(opened) :
                  /\ opened[i].file = process[1].stdout.file
                  /\ opened[i].mode \in {"truncate", "append"}
      ]_vars

\* `a > f | a` was assembled: f was emptied, and the first a runs with its
\* stdout on the pipe
C23_Witness ==
    /\ pc = "parsed"
    /\ tokens = <<Wa, OpOut, Wf, OpPipe, Wa>>
    /\ fs_before[Wf] = "data"
    /\ fs[Wf] = "empty"
    /\ Len(children) = 1
    /\ children[1].by = "pipe"
    /\ children[1].stdout.kind = "piped"

\* C24: of the operand segment behind a file redirection operator only the
\* first token is used, as the file name; every further token of the segment
\* is dropped: it does not become an argument of the program, no file is
\* opened or changed for it, nothing is printed and no error is raised for it
\* (the fold fails only when the named file cannot be opened or, for "2>",
\* the program cannot be run).
C24_ExtraOperandsDropped ==
    [][ \A op \in {OpIn, OpOut, OpOut1, OpErr, OpAppend, OpBoth} :
            (Folding(op) /\ Len(command_of(rest)) >= 2) =>
                /\ process' # <<>> => process'[1].args = process[1].args
                                       /\ process'[1].prog = process[1].prog
                /\ \A i \in (Len(opened) + 1)..Len(opened') :
                      opened'[i].file = FoldedFile
                /\ \A n \in DOMAIN fs : n # FoldedFile => fs'[n] = fs[n]
                /\ \A k \in (Len(children) + 1)..Len(children') :
                      children'[k].args = process[1].args
                /\ diag' = diag
                /\ rest' \in {leftover_of(rest), rest}
                /\ result'.kind # "panic"
                /\ result'.kind = "Err" <=>
                      \/ op = OpIn /\ fs[FoldedFile] = "absent"
                      \/ op # OpIn /\ fs[FoldedFile] = "dir"
                      \/ op = OpErr /\ process[1].prog \notin Executables
      ]_vars

\* `a > f a f` was run: the program got no arguments, only f was opened, once,
\* and nothing was printed
C24_Witness ==
    /\ pc = "finished"
    /\ tokens = <<Wa, OpOut, Wf, Wa, Wf>>
    /\ Len(children) = 1
    /\ children[1].prog = Wa
    /\ children[1].args = <<>>
    /\ opened = <<[file |-> Wf, mode |-> "truncate"]>>
    /\ diag = <<>>

\* C25: tokens[0] in the exit check of the main loop is never out of bounds:
\* the check is reached only with a process specification returned by
\* parse_line, and parse_line returns none for an empty token sequence.
C25_ExitCheckInBounds ==
    /\ (result.kind = "Ok" /\ result.value # <<>>) =>
          /\ tokens # <<>>
          /\ Engine
    /\ (Engine /\ tokens = <<>>) => pc # "crashed"

\* the exit check was reached and read tokens[0]: `f` could not be run
C25_Witness ==
    /\ pc = "finished"
    /\ tokens = <<Wf>>
    /\ result.kind = "Ok"
    /\ result.value # <<>>
    /\ children = <<>>
    /\ diag = <<"Could not execute process">>

Min(a, b) == IF a < b THEN a ELSE b

\* C26: every iteration of the loop appends exactly one entry, the line's
\* token list (also for empty lines, built-ins and lines that fail), and no
\* entry is ever removed or changed; and `history n` shows exactly
\* min(n, history length) entries, the most recent ones in insertion order,
\* without an index out of bounds or a subtraction underflow.
C26_HistoryAppendOnly ==
    [][ /\ Len(history') = Len(history) + 1
        /\ SubSeq(history', 1, Len(history)) = history
        /\ history'[Len(history')] = tokens'
        /\ pc' # "crashed"
        /\ (Len(tokens') = 2 /\ tokens'[1] = Whistory /\ tokens'[2] \in NumTokens) =>
              LET n == DecimalValue(tokens'[2])
                  shown == Min(n, Len(history'))
              IN  /\ printed'.ret = "Ok"
                  /\ Len(printed'.out) = shown
                  /\ \A i \in 1..shown :
                        printed'.out[i].command = history'[Len(history') - shown + i]
      ]_vars

\* `history 3` was typed as the second line: both lines are shown, oldest first
C26_Witness ==
    /\ pc = "iterate"
    /\ history = <<<<Wa>>, <<Whistory, <<"3">>>>>>
    /\ printed.ret = "Ok"
    /\ Len(printed.out) = 2
    /\ printed.out[1].command = <<Wa>>
    /\ printed.out[2].command = <<Whistory, <<"3">>>>

====
